---- MODULE Spec2Model ----
(***************************************************************************)
(* State-machine model of libhook: the guarded byte patcher, the           *)
(* permission wrapper, the code patcher (trampoline builder) and the       *)
(* proximity allocator with its free-region scanner.                       *)
(*                                                                         *)
(* Addresses are natural numbers in 0..USIZE_MAX, a scaled-down address    *)
(* space of NumPages pages of PageSize bytes.  Bytes are 0..255.           *)
(***************************************************************************)
EXTENDS Integers, Sequences, FiniteSets, TLC

VARIABLES
    mem,      \* bytes of the hook window: [Window -> Byte]
    prot,     \* protection flags of the pages covering the window
    guards,   \* live patch guards: guard id -> guard record
    nguards,  \* number of guards created so far (next guard id - 1)
    wb,       \* history: guard id -> number of write-backs performed for it
    halted,   \* "no", "panic" (an unwrap/expect failed) or "segv"
    last,     \* history: the last patcher operation, its inputs and effects
    cp,       \* the CodePatcher object, or NoPatcher
    pools,    \* ProximityAllocator.pools: sequence of pool records
    mapped,   \* operating system: set of mapped pages
    handles,  \* live ExecutableMemory handles not owned by a CodePatcher
    alast,    \* history: the last allocator operation
    nnew,     \* number of calls of CodePatcher::new so far
    snap,     \* history: guard id -> bytes and flags found right before its patch
    mutex,    \* the Mutex around the ProximityAllocator: holder and poison flag
    threads,  \* thread id -> where the thread stands in allocate / drop
    acc,      \* history: the last access to the pool list and who held the mutex
    scan      \* a FreeRegionIter driven on its own, with the history of its calls

vars == <<mem, prot, guards, nguards, wb, halted, last, cp, pools, mapped, handles, alast, nnew, snap,
          mutex, threads, acc, scan>>

tvars == <<mutex, threads, acc>>


-----------------------------------------------------------------------------
(* Bounds of the model *)

PageSize == 64
NumPages == 8
MaxDistance == 128
MaxGuards == 2
MaxGuardsCreated == 2
MaxHandles == 2
MaxNew == 2
MaxPatchLen == 5
NumThreads == 2

(* Program constants *)

MAX_INSTR_LEN == 16
NOP == 144

USIZE_MAX == NumPages * PageSize - 1

Pages == 0 .. (NumPages - 1)

Addresses == 0 .. USIZE_MAX

PageOf(a) == a \div PageSize

saturating_sub(a, b) == IF a < b THEN 0 ELSE a - b
saturating_add(a, b) == IF a + b > USIZE_MAX THEN USIZE_MAX ELSE a + b
wrapping_add(a, b) == (a + b) % (USIZE_MAX + 1)

-----------------------------------------------------------------------------
(* The hook window: the bytes of the process the patchers read and write *)

Location == 3 * PageSize - 2
WinLen == MaxPatchLen + MAX_INSTR_LEN
Window == Location .. (Location + WinLen - 1)
WinPages == { PageOf(a) : a \in Window }

READ == {"r"}
READ_WRITE == {"r", "w"}
READ_EXECUTE == {"r", "x"}
ProtAll == {"r", "w", "x"}

\* pages covering [loc, loc+len)
CoveredPages(loc, len) ==
    IF len = 0 THEN {} ELSE { p \in Pages : PageOf(loc) <= p /\ p <= PageOf(loc + len - 1) }

\* bytes of memory at [loc, loc+len) as a sequence
ReadBytes(m, loc, len) == [ i \in 1 .. len |-> m[loc + i - 1] ]

-----------------------------------------------------------------------------
(* A "world" carries the memory, the protection flags, the halt status and  *)
(* the log of memory effects of the operation being executed.              *)

World(m, p) == [mem |-> m, prot |-> p, fault |-> FALSE, panicked |-> FALSE, log |-> << >>]

HaltOf(w) == IF w.fault THEN "segv" ELSE IF w.panicked THEN "panic" ELSE "no"

Elevated(w, loc, len) == \A p \in CoveredPages(loc, len) : w.prot[p] = ProtAll
Writable(w, loc, len) == \A p \in CoveredPages(loc, len) : "w" \in w.prot[p]

\* ptr::copy(src, location, len): a store to a page without write permission faults
CopyTo(w, loc, bytes, why, gid) ==
    IF w.fault THEN w
    ELSE LET n == Len(bytes)
             ev == [ev |-> "write", why |-> why, gid |-> gid, loc |-> loc, len |-> n,
                    elevated |-> Elevated(w, loc, n)]
         IN IF Writable(w, loc, n)
            THEN [w EXCEPT !.mem = [ a \in DOMAIN w.mem |->
                                       IF loc <= a /\ a < loc + n THEN bytes[a - loc + 1] ELSE w.mem[a] ],
                           !.log = Append(w.log, ev)]
            ELSE [w EXCEPT !.fault = TRUE, !.log = Append(w.log, ev)]

\* faulty variant: a failed protection change goes unnoticed
ProtectFails_Ignored(len, osfail) == FALSE

\* region::protect_with_handle(location, len, Protection::all()): fails for a
\* zero length or when the operating system refuses; the handle remembers the
\* previous flags of every covered page
ProtectFails(len, osfail) == len = 0 \/ osfail

ProtectWithHandle(w, loc, len) ==
    [w EXCEPT !.prot = [ p \in DOMAIN w.prot |->
                           IF p \in CoveredPages(loc, len) THEN ProtAll ELSE w.prot[p] ],
              !.log = Append(w.log, [ev |-> "protect", why |-> "elevate", gid |-> 0,
                                     loc |-> loc, len |-> len, elevated |-> TRUE])]

\* faulty variant: the flags are changed without a handle, nothing reinstates them
HandleDrop_Forgotten(w, loc, len, saved) == w

\* Drop for region::ProtectGuard: the remembered flags are reinstated
HandleDrop(w, loc, len, saved) ==
    IF w.fault THEN w
    ELSE [w EXCEPT !.prot = [ p \in DOMAIN w.prot |->
                                IF p \in CoveredPages(loc, len) THEN saved[p] ELSE w.prot[p] ],
                   !.log = Append(w.log, [ev |-> "unprotect", why |-> "revert", gid |-> 0,
                                          loc |-> loc, len |-> len, elevated |-> FALSE])]

-----------------------------------------------------------------------------
(* patcher/byte.rs: BytePatcher and BytePatchGuard *)

NoGuard == [kind |-> "none", original |-> << >>, location |-> 0, len |-> 0]

\* faulty variant: the snapshot is taken after the overwrite
BytePatchGuard_patch_SnapshotLate(w, location, patch, gid) ==
    LET w1 == CopyTo(w, location, patch, "apply", gid)
        guard == [kind |-> "byte", original |-> ReadBytes(w1.mem, location, Len(patch)),
                  location |-> location, len |-> Len(patch)]
    IN [w |-> w1, guard |-> guard]

\* BytePatchGuard::patch: snapshot patch.len() bytes, then overwrite them
BytePatchGuard_patch(w, location, patch, gid) ==
    LET original == ReadBytes(w.mem, location, Len(patch))
        guard == [kind |-> "byte", original |-> original, location |-> location,
                  len |-> Len(patch)]
    IN [w |-> CopyTo(w, location, patch, "apply", gid), guard |-> guard]

\* faulty variant: the snapshot is copied back one byte too far
BytePatchGuard_drop_Shifted(w, g, gid) ==
    CopyTo(w, g.location + 1, g.original, "restore", gid)

\* Drop for BytePatchGuard: copy the snapshot back
BytePatchGuard_drop(w, g, gid) == CopyTo(w, g.location, g.original, "restore", gid)

-----------------------------------------------------------------------------
(* patcher/mem.rs: PermissionWrapper and PermissionWrapperGuard *)

\* faulty variant: the result of the protection change is looked at only after the
\* inner patcher has run
PermissionWrapper_patch_WriteFirst(w, location, patch, osfail, gid) ==
    IF ProtectFails(Len(patch), osfail)
    THEN [res |-> "ProtectionError",
          w |-> BytePatchGuard_patch(w, location, patch, gid).w, guard |-> NoGuard]
    ELSE LET saved == w.prot
             w1 == ProtectWithHandle(w, location, Len(patch))
             r == BytePatchGuard_patch(w1, location, patch, gid)
             w2 == HandleDrop(r.w, location, Len(patch), saved)
         IN [res |-> "ok", w |-> w2, guard |-> [r.guard EXCEPT !.kind = "perm"]]

\* PermissionWrapper::patch over BytePatcher
PermissionWrapper_patch(w, location, patch, osfail, gid) ==
    IF ProtectFails(Len(patch), osfail)
    THEN [res |-> "ProtectionError", w |-> w, guard |-> NoGuard]
    ELSE LET saved == w.prot
             w1 == ProtectWithHandle(w, location, Len(patch))
             r == BytePatchGuard_patch(w1, location, patch, gid)
             w2 == HandleDrop(r.w, location, Len(patch), saved)
         IN [res |-> "ok", w |-> w2, guard |-> [r.guard EXCEPT !.kind = "perm"]]

\* faulty variant: the inner guard is copied out and the field keeps it
TakeGuard_Kept(g) == [taken |-> g, left |-> g]

\* self.guard.take(): the inner guard moves out, the field is left None
TakeGuard(g) == [taken |-> g, left |-> NoGuard]

\* drop glue run after Drop::drop (also while unwinding from a panic in it):
\* a field that still holds the inner guard drops it
DropGlue(w, field, gid) ==
    IF field.kind = "none" THEN w ELSE BytePatchGuard_drop(w, field, gid)

\* faulty variant: the protection handle is dropped at once (`let _ = ...`), before
\* the inner guard is restored
PermissionWrapperGuard_drop_HandleFirst(w, g, osfail, gid) ==
    IF ProtectFails(g.len, osfail)
    THEN DropGlue([w EXCEPT !.panicked = TRUE], g, gid)
    ELSE LET saved == w.prot
             w1 == ProtectWithHandle(w, g.location, g.len)
             w2 == HandleDrop(w1, g.location, g.len, saved)
             t == TakeGuard(g)
             w3 == BytePatchGuard_drop(w2, t.taken, gid)
         IN DropGlue(w3, t.left, gid)

\* Drop for PermissionWrapperGuard
PermissionWrapperGuard_drop(w, g, osfail, gid) ==
    IF ProtectFails(g.len, osfail)
    THEN \* protect_with_handle(..).unwrap() panics; the fields are dropped on unwind
         DropGlue([w EXCEPT !.panicked = TRUE], g, gid)
    ELSE LET saved == w.prot
             w1 == ProtectWithHandle(w, g.location, g.len)
             t == TakeGuard(g)
             w2 == BytePatchGuard_drop(w1, t.taken, gid)
             w3 == HandleDrop(w2, g.location, g.len, saved)
         IN DropGlue(w3, t.left, gid)

\* releasing a guard of either kind (PatchGuard::restore has an empty body and
\* consumes the guard, so restore() and an implicit drop run the same code)
GuardDrop(w, g, osfail, gid) ==
    IF g.kind = "byte" THEN BytePatchGuard_drop(w, g, gid)
    ELSE PermissionWrapperGuard_drop(w, g, osfail, gid)

-----------------------------------------------------------------------------
(* The operating system seen by the allocator.  An oracle fixes, for one    *)
(* call, where the system refuses: qerr is the page whose region query      *)
(* fails with an error other than UnmappedRegion (-1: none), mfail the      *)
(* pages at which a mapping request is refused, mkind the mmap::MapError    *)
(* it is refused with.  checks tells whether the build checks arithmetic    *)
(* overflow (a plain `+` that overflows panics) or lets it wrap.            *)

NoOsFailure == [qerr |-> -1, mfail |-> {}, mkind |-> "ErrNoMem", checks |-> FALSE]

\* mmap::MapError values the system can answer with: out of memory, or not
MapErrors == {"ErrNoMem", "ErrNoMapAllowed"}

OsOracles ==
    {NoOsFailure}
    \cup { [NoOsFailure EXCEPT !.qerr = p] : p \in Pages }
    \cup { [NoOsFailure EXCEPT !.mfail = {p}, !.mkind = k] : p \in Pages, k \in MapErrors }
    \cup { [NoOsFailure EXCEPT !.mfail = Pages, !.mkind = k] : k \in MapErrors }
    \cup { [NoOsFailure EXCEPT !.checks = TRUE],
           [NoOsFailure EXCEPT !.checks = TRUE, !.mfail = Pages] }

\* region::query(address): the maximal run of mapped pages around the address
RegionStart(M, p) ==
    PageSize * (CHOOSE s \in 0 .. p : (\A q \in s .. p : q \in M) /\ (s = 0 \/ (s - 1) \notin M))
RegionEnd(M, p) ==
    PageSize * (1 + CHOOSE e \in p .. (NumPages - 1) :
                      (\A q \in p .. e : q \in M) /\ (e = NumPages - 1 \/ (e + 1) \notin M))

region_query(M, os, address) ==
    LET p == PageOf(address)
    IN IF os.qerr = p THEN [kind |-> "err", start |-> 0, end |-> 0]
       ELSE IF p \notin M THEN [kind |-> "unmapped", start |-> 0, end |-> 0]
       ELSE [kind |-> "region", start |-> RegionStart(M, p), end |-> RegionEnd(M, p)]

-----------------------------------------------------------------------------
(* alloc/search.rs: FreeRegionIter *)

InRange(range, a) == range.start <= a /\ a < range.end

FreeRegionIter_new(origin, range, search) ==
    [range |-> range, search |-> search, current |-> origin]

\* "Adjust the offset for repeated calls": current after a candidate or an
\* error was produced
AdjustOffset(it) ==
    IF it.search = "Before" THEN saturating_sub(it.current, PageSize)
    ELSE wrapping_add(it.current, PageSize)

\* `self.current + page_size` does not fit a usize
AdjustOverflows(it) == it.search = "After" /\ it.current + PageSize > USIZE_MAX

\* FreeRegionIter::next: item.kind is "none" (iteration over), "ok" (a free
\* candidate address), "err" (a region query error) or "panic" (the addition
\* overflowed in a build that checks it); queried lists the addresses handed
\* to region::query by this call, in order
RECURSIVE FreeRegionIter_next(_, _, _)
FreeRegionIter_next(it, M, os) ==
    IF ~(it.current > 0 /\ InRange(it.range, it.current))
    THEN [item |-> [kind |-> "none", addr |-> 0], it |-> it, queried |-> << >>]
    ELSE LET q == region_query(M, os, it.current)
         IN IF q.kind = "region"
            THEN [FreeRegionIter_next(
                     [it EXCEPT !.current = IF it.search = "Before"
                                            THEN saturating_sub(q.start, PageSize)
                                            ELSE q.end],
                     M, os)
                  EXCEPT !.queried = <<it.current>> \o @]
            ELSE IF AdjustOverflows(it) /\ os.checks
            THEN [item |-> [kind |-> "panic", addr |-> it.current], it |-> it,
                  queried |-> <<it.current>>]
            ELSE [item |-> [kind |-> IF q.kind = "unmapped" THEN "ok" ELSE "err",
                            addr |-> it.current],
                  it |-> [it EXCEPT !.current = AdjustOffset(it)],
                  queried |-> <<it.current>>]

-----------------------------------------------------------------------------
(* alloc/proximity.rs: ProximityAllocator over slice pools *)

RoundUp(n, m) == ((n + m - 1) \div m) * m

PoolPages(base, len) == { p \in Pages : PageOf(base) <= p /\ p <= PageOf(base + len - 1) }

\* SlicePool::alloc: first fit, the lowest free offset that holds `size` bytes
\* (a free span starts at offset 0 or where a live slice ends)
SliceFree(pool, o, size) ==
    /\ o + size <= pool.len
    /\ \A a \in pool.allocs : o + size <= a.off \/ a.off + a.len <= o

SlicePool_alloc(pool, size) ==
    LET starts == {0} \cup { a.off + a.len : a \in pool.allocs }
        fits == { o \in starts : SliceFree(pool, o, size) }
    IN IF fits = {} THEN [ok |-> FALSE, off |-> 0]
       ELSE [ok |-> TRUE, off |-> CHOOSE o \in fits : \A o2 \in fits : o <= o2]

\* mmap::MemoryMap::new(size, [.., MapAddr(address)]): "ok" or the MapError
MemoryMap_new(M, os, address, size) ==
    LET len == RoundUp(size, PageSize)
    IN IF size = 0 THEN "ErrZeroLength"
       ELSE IF address % PageSize # 0 THEN "ErrUnaligned"
       ELSE IF address + len > USIZE_MAX THEN "ErrNoMem"
       ELSE IF PoolPages(address, len) \cap M # {} THEN "ErrNoMapAllowed"
       ELSE IF PoolPages(address, len) \cap os.mfail # {} THEN os.mkind
       ELSE "ok"

\* ProximityAllocator::allocate_fixed_pool: a fixed-address executable mapping of
\* `size` bytes, rounded up to whole pages by the mapping call; ErrNoMem
\* becomes OutOfMemory, every other MapError becomes MmapError
allocate_fixed_pool(M, os, address, size) ==
    LET len == RoundUp(size, PageSize)
        e == MemoryMap_new(M, os, address, size)
    IN [ok |-> e = "ok",
        res |-> IF e = "ok" THEN "ok" ELSE IF e = "ErrNoMem" THEN "OutOfMemory" ELSE "MmapError",
        pool |-> [base |-> address, len |-> len, allocs |-> {}]]

\* the find_map over after.chain(before) in allocate_pool: a failed mapping
\* attempt is dropped by `.ok()` and the next candidate is tried; `tried` lists
\* the candidates handed to allocate_fixed_pool with the outcome of each and
\* the direction of the scan that produced it
RECURSIVE FindPool(_, _, _, _, _)
FindPool(M, os, after, before, size) ==
    LET first == FreeRegionIter_next(after, M, os)
        r == IF first.item.kind = "none" THEN FreeRegionIter_next(before, M, os) ELSE first
        after2 == IF first.item.kind = "none"
                  THEN [after EXCEPT !.range = [start |-> 0, end |-> 0]]
                  ELSE first.it
        before2 == IF first.item.kind = "none" THEN r.it ELSE before
    IN IF r.item.kind = "none"
       THEN [res |-> "OutOfMemory", pool |-> [base |-> 0, len |-> 0, allocs |-> {}], tried |-> << >>]
       ELSE IF r.item.kind = "err"
       THEN [res |-> "RegionError", pool |-> [base |-> 0, len |-> 0, allocs |-> {}], tried |-> << >>]
       ELSE IF r.item.kind = "panic"
       THEN [res |-> "panic", pool |-> [base |-> 0, len |-> 0, allocs |-> {}], tried |-> << >>]
       ELSE LET m == allocate_fixed_pool(M, os, r.item.addr, size)
            IN IF m.ok
               THEN [res |-> "ok", pool |-> m.pool,
                     tried |-> << [addr |-> r.item.addr, res |-> m.res,
                                   search |-> r.it.search] >>]
               ELSE LET rest == FindPool(M, os, after2, before2, size)
                    IN [rest EXCEPT !.tried = << [addr |-> r.item.addr, res |-> m.res,
                                                  search |-> r.it.search] >> \o @]

\* faulty variant: the scan below the origin is chained in first
allocate_pool_BeforeFirst(M, os, range, origin, size) ==
    FindPool(M, os, FreeRegionIter_new(origin, range, "Before"),
             FreeRegionIter_new(origin, range, "After"), size)

\* ProximityAllocator::allocate_pool
allocate_pool(M, os, range, origin, size) ==
    LET before == FreeRegionIter_new(origin, range, "Before")
        after == FreeRegionIter_new(origin, range, "After")
    IN FindPool(M, os, after, before, size)

\* faulty variant: every pool is taken to be in range
is_pool_in_range_Any(range, pool) == TRUE

\* faulty variant: only the start of the pool is tested
is_pool_in_range_StartOnly(range, pool) == InRange(range, pool.base)

\* is_pool_in_range in allocate_memory
is_pool_in_range(range, pool) ==
    LET lower == pool.base
        upper == lower + pool.len
    IN InRange(range, lower) /\ InRange(range, upper - 1)

\* faulty variant: the existing pools are never tried
allocate_memory_Never(ps, range, size) == 0

\* ProximityAllocator::allocate_memory: index of the first eligible pool that
\* can hold the slice, 0 when there is none (OutOfMemory)
allocate_memory(ps, range, size) ==
    LET good == { i \in 1 .. Len(ps) :
                    is_pool_in_range(range, ps[i]) /\ SlicePool_alloc(ps[i], size).ok }
    IN IF good = {} THEN 0 ELSE CHOOSE i \in good : \A j \in good : i <= j

\* faulty variant: the new pool is pushed without the slice taken from it
allocate_from_new_pool_EmptyPool(ps, M, size, memory_range, f) ==
    IF f.res # "ok"
    THEN [res |-> f.res, addr |-> 0, len |-> 0, newpool |-> FALSE, pools |-> ps,
          mapped |-> M, tried |-> f.tried, range |-> memory_range]
    ELSE [res |-> "ok", addr |-> f.pool.base, len |-> size, newpool |-> TRUE,
          pools |-> Append(ps, f.pool),
          mapped |-> M \cup PoolPages(f.pool.base, f.pool.len),
          tried |-> f.tried, range |-> memory_range]

\* the tail of allocate once allocate_memory found no pool: f is the outcome of
\* allocate_pool; the slice is taken from the new pool and then the pool is
\* pushed; a pool that cannot give the slice is dropped, which unmaps it
allocate_from_new_pool(ps, M, size, memory_range, f) ==
    IF f.res # "ok"
    THEN [res |-> f.res, addr |-> 0, len |-> 0, newpool |-> FALSE, pools |-> ps,
          mapped |-> M, tried |-> f.tried, range |-> memory_range]
    ELSE LET a == SlicePool_alloc(f.pool, size)
             M2 == M \cup PoolPages(f.pool.base, f.pool.len)
         IN IF ~a.ok
            THEN [res |-> "OutOfMemory", addr |-> 0, len |-> 0, newpool |-> FALSE,
                  pools |-> ps, mapped |-> M, tried |-> f.tried, range |-> memory_range]
            ELSE [res |-> "ok", addr |-> f.pool.base + a.off, len |-> size,
                  newpool |-> TRUE,
                  pools |-> Append(ps, [f.pool EXCEPT !.allocs = {[off |-> a.off, len |-> size]}]),
                  mapped |-> M2, tried |-> f.tried, range |-> memory_range]

\* ProximityAllocator::allocate; the result carries the new pool list and map
allocate(ps, M, os, origin, size) ==
    LET memory_range == [start |-> saturating_sub(origin, MaxDistance),
                         end |-> saturating_add(origin, MaxDistance)]
        i == allocate_memory(ps, memory_range, size)
    IN IF i # 0
       THEN LET off == SlicePool_alloc(ps[i], size).off
            IN [res |-> "ok", addr |-> ps[i].base + off, len |-> size, newpool |-> FALSE,
                pools |-> [ps EXCEPT ![i].allocs = @ \cup {[off |-> off, len |-> size]}],
                mapped |-> M, tried |-> << >>, range |-> memory_range]
       ELSE allocate_from_new_pool(ps, M, size, memory_range,
                                   allocate_pool(M, os, memory_range, origin, size))

\* pool.len() as used by release: the length of the pool's slice in bytes
SlicePool_len(pool) == pool.len

\* faulty variant: the lower bound of the pool is excluded from the lookup
PoolContains_Exclusive(pool, ptr) == pool.base < ptr /\ ptr < pool.base + pool.len

\* (lower..upper).contains(&ptr) with lower = pool.as_ptr(), upper = lower + pool.len()
PoolContains(pool, ptr) == pool.base <= ptr /\ ptr < pool.base + pool.len

RemoveAt(s, i) == [ k \in 1 .. (Len(s) - 1) |-> IF k < i THEN s[k] ELSE s[k + 1] ]

\* Drop for ExecutableMemory: ProximityAllocator::release(&self.data), then the
\* slice itself is dropped and returns to its pool; a pool that has left the
\* list is unmapped once its last slice is gone
release(ps, M, ptr) ==
    LET found == { i \in 1 .. Len(ps) : PoolContains(ps[i], ptr) }
    IN IF found = {}
       THEN [panicked |-> TRUE, removed |-> FALSE, pools |-> ps, mapped |-> M]
       ELSE LET index == CHOOSE i \in found : \A j \in found : i <= j
                pool == ps[index]
                freed == [pool EXCEPT !.allocs = { a \in @ : pool.base + a.off # ptr }]
                remove == SlicePool_len(pool) = 1
            IN IF remove
               THEN [panicked |-> FALSE, removed |-> TRUE, pools |-> RemoveAt(ps, index),
                     mapped |-> IF freed.allocs = {} THEN M \ PoolPages(pool.base, pool.len) ELSE M]
               ELSE [panicked |-> FALSE, removed |-> FALSE,
                     pools |-> [ps EXCEPT ![index] = freed], mapped |-> M]

\* ProximityAllocator::release alone: the lookup of the pool and the test that
\* decides whether the pool leaves the list; the slice is still allocated
ProximityAllocator_release(ps, ptr) ==
    LET found == { i \in 1 .. Len(ps) : PoolContains(ps[i], ptr) }
        index == CHOOSE i \in found : \A j \in found : i <= j
    IN IF found = {}
       THEN [panicked |-> TRUE, removed |-> FALSE, pool |-> [base |-> 0, len |-> 0, allocs |-> {}],
             pools |-> ps]
       ELSE [panicked |-> FALSE, removed |-> SlicePool_len(ps[index]) = 1, pool |-> ps[index],
             pools |-> IF SlicePool_len(ps[index]) = 1 THEN RemoveAt(ps, index) ELSE ps]

\* Drop for the SliceBox `data` of an ExecutableMemory, run after Drop::drop
\* returned: the slice goes back to its pool (the pool synchronises this
\* itself); rel is what release returned.  A pool that has left the list is
\* unmapped when its last slice is gone
SliceBox_drop(ps, M, ptr, rel) ==
    LET found == { i \in 1 .. Len(ps) : PoolContains(ps[i], ptr) }
        index == CHOOSE i \in found : \A j \in found : i <= j
        freed(pool) == [pool EXCEPT !.allocs = { a \in @ : pool.base + a.off # ptr }]
    IN IF rel.removed
       THEN [pools |-> ps,
             mapped |-> IF freed(rel.pool).allocs = {}
                        THEN M \ PoolPages(rel.pool.base, rel.pool.len) ELSE M]
       ELSE IF found = {} THEN [pools |-> ps, mapped |-> M]
       ELSE [pools |-> [ps EXCEPT ![index] = freed(ps[index])], mapped |-> M]

-----------------------------------------------------------------------------
(* alloc/mod.rs: the Mutex of ThreadAllocator and the threads using it *)

Threads == 1 .. NumThreads
NoThread == 0

IdleThread == [pc |-> "idle", origin |-> 0, size |-> 0, ptr |-> 0, len |-> 0, panic |-> FALSE,
               rel |-> [removed |-> FALSE, pool |-> [base |-> 0, len |-> 0, allocs |-> {}]]]

NoAccess == [op |-> "none", thread |-> NoThread, holder |-> NoThread]

\* faulty variant: the lock is handed out whether or not it is held
MutexFree_Always(m) == TRUE

\* Mutex::lock returns only when no other thread holds the mutex
MutexFree(m) == m.holder = NoThread

\* a thread is inside ProximityAllocator::allocate or ::release
Inside(t) == threads[t].pc \in {"allocate", "release"}

-----------------------------------------------------------------------------
(* The instruction set seen through the decoder and the block encoder: the  *)
(* first byte fixes the instruction and its length.                         *)
(*   0x90 nop (1)   0xCC int3 (1)   0xB0 ib mov (2)   0x0F 1F 00 nop (3)    *)
(*   0xEB cb jmp short (2)   0xE3 cb jrcxz (2)   0xE9 cd jmp near (5)       *)
(*   0x66 .. a nop carrying prefixes up to the longest instruction (15)     *)
(* Every other first byte decodes as a one-byte invalid instruction.        *)

OpCode(b) ==
    CASE b = 144 -> "nop"
      [] b = 204 -> "int3"
      [] b = 176 -> "mov"
      [] b = 15 -> "nop3"
      [] b = 235 -> "jmp_rel8"
      [] b = 227 -> "jrcxz"
      [] b = 233 -> "jmp_rel32"
      [] b = 102 -> "nop15"
      [] OTHER -> "invalid"

OpLen(code) ==
    CASE code \in {"nop", "int3", "invalid"} -> 1
      [] code \in {"mov", "jmp_rel8", "jrcxz"} -> 2
      [] code = "nop3" -> 3
      [] code = "jmp_rel32" -> 5
      [] code = "nop15" -> 15

Signed(v, bits) == IF v >= 2 ^ (bits - 1) THEN v - 2 ^ bits ELSE v

\* Decoder::decode at offset `off` of `data`, instruction pointer ip: an
\* instruction cut short by the end of the data is invalid and spans the rest
Decode(data, off, ip) ==
    LET code == OpCode(data[off + 1])
        rest == Len(data) - off
    IN IF OpLen(code) > rest
       THEN [code |-> "invalid", len |-> rest, ip |-> ip, target |-> 0]
       ELSE [code |-> code, len |-> OpLen(code), ip |-> ip,
             target |-> CASE code \in {"jmp_rel8", "jrcxz"} ->
                               ip + 2 + Signed(data[off + 2], 8)
                          [] code = "jmp_rel32" ->
                               ip + 5 + data[off + 2] + 256 * data[off + 3]
                                      + 65536 * data[off + 4]
                                      + 16777216 * Signed(data[off + 5], 8)
                          [] OTHER -> 0]

\* faulty variant: an instruction is included only if it ends inside the patch
IncludeInstr_FitsOnly(size, patch_size, v) == size + v.len <= patch_size

\* the take_while closure of CodePatcher::new: `size < patch_size`
IncludeInstr(size, patch_size, v) == size < patch_size

\* decoder.into_iter().take_while(..).collect()
RECURSIVE TakeInstrs(_, _, _, _)
TakeInstrs(data, location, size, patch_size) ==
    IF size >= Len(data) THEN << >>
    ELSE LET v == Decode(data, size, location + size)
         IN IF IncludeInstr(size, patch_size, v)
            THEN <<v>> \o TakeInstrs(data, location, size + v.len, patch_size)
            ELSE << >>

\* the offsets of `data` the decoder reads while the iterator runs: take_while
\* asks the decoder for an instruction before its closure sees it, so the
\* instruction that ends the iteration is decoded as well
RECURSIVE DecoderReads(_, _, _)
DecoderReads(data, size, patch_size) ==
    IF size >= Len(data) THEN {}
    ELSE LET v == Decode(data, size, size)
         IN (size .. (size + v.len - 1)) \cup
            IF IncludeInstr(size, patch_size, v)
            THEN DecoderReads(data, size + v.len, patch_size)
            ELSE {}

RECURSIVE SumLen(_)
SumLen(instrs) == IF instrs = << >> THEN 0 ELSE Head(instrs).len + SumLen(Tail(instrs))

\* BlockEncoder: length of an instruction re-encoded in the trampoline.  A
\* short branch whose target stays inside the moved block keeps its form; one
\* that leaves the block becomes a near jump (5), and jrcxz, which has no near
\* form, becomes jrcxz / jmp short / jmp near (9)
EncodedLen(i, lo, hi) ==
    CASE i.code \in {"jmp_rel8", "jrcxz"} /\ lo <= i.target /\ i.target < hi -> 2
      [] i.code = "jmp_rel8" -> 5
      [] i.code = "jrcxz" -> 9
      [] OTHER -> i.len

Encode(instrs, lo, hi) ==
    [ k \in 1 .. Len(instrs) |->
        [code |-> instrs[k].code, len |-> EncodedLen(instrs[k], lo, hi),
         target |-> instrs[k].target] ]

\* faulty variant: the patch is stored as given, without padding
PadPatch_Unpadded(patch, size) == patch

\* iter::repeat(0x90) chained after the patch, take(size)
PadPatch(patch, size) == [ k \in 1 .. size |-> IF k <= Len(patch) THEN patch[k] ELSE NOP ]

-----------------------------------------------------------------------------
(* patcher/code.rs: CodePatcher *)

\* `code` (what the trampoline holds) and `given` (the patch the caller
\* passed to new) are history fields
NoPatcher == [live |-> FALSE, patch |-> << >>, location |-> 0,
              original |-> [ptr |-> 0, len |-> 0], code |-> << >>, given |-> << >>]

NoError == [allocated |-> 0, needed |-> 0, location |-> 0]

\* faulty variant: the appended jump goes back to the start of the hook site
TrampolineJmp_ToStart(location, size) ==
    [code |-> "jmp_rel32", len |-> 5, ip |-> 0, target |-> location]

\* Instruction::with_branch(Code::Jmp_rel32_64, location + size): the jump
\* appended to the instruction list
TrampolineJmp(location, size) ==
    [code |-> "jmp_rel32", len |-> 5, ip |-> 0, target |-> location + size]

\* faulty variant: the sanity check never fires
BufferTooSmall_Never(needed, allocated) == FALSE

\* the sanity check `bytes.len() > original.len()`
BufferTooSmall(needed, allocated) == needed > allocated

\* faulty variant: the trampoline allocation is dropped when new returns
OriginalMoved_Dropped(ps, M, ptr) == release(ps, M, ptr)

\* Ok(Self { patcher, original, patch, location, .. }): the ExecutableMemory is
\* moved into the returned CodePatcher, so no drop runs for it in new
OriginalMoved(ps, M, ptr) == [pools |-> ps, mapped |-> M]

\* CodePatcher::new from the allocation on: `taken` are the instructions
\* decoded at the hook site, `a` is the outcome of allocate_executable
CodePatcher_new_encode(w, location, patch, taken, a) ==
    LET size == SumLen(taken)
        instructions == Append(taken, TrampolineJmp(location, size))
        encoded == Encode(instructions, location, location + size)
        needed == SumLen(encoded)
        r == release(a.pools, a.mapped, a.addr)
        base == [res |-> "ok", w |-> w, pools |-> a.pools, mapped |-> a.mapped,
                 cp |-> NoPatcher, size |-> size, taken |-> taken,
                 allocated |-> a.len, needed |-> 0, alloc |-> a,
                 instructions |-> instructions, err |-> NoError, copied |-> 0,
                 read |-> {}]
    IN IF a.res # "ok"
       THEN [base EXCEPT !.res = a.res]
       ELSE IF \E k \in 1 .. Len(instructions) : instructions[k].code = "invalid"
       THEN [base EXCEPT !.res = "IcedError", !.pools = r.pools, !.mapped = r.mapped]
       ELSE IF BufferTooSmall(needed, a.len)
       THEN [base EXCEPT !.res = "BufferTooSmall", !.needed = needed,
                         !.err = [allocated |-> a.len, needed |-> needed, location |-> a.addr],
                         !.pools = r.pools, !.mapped = r.mapped]
       ELSE [base EXCEPT !.needed = needed, !.copied = needed,
                         !.pools = OriginalMoved(a.pools, a.mapped, a.addr).pools,
                         !.mapped = OriginalMoved(a.pools, a.mapped, a.addr).mapped,
                         !.cp = [live |-> TRUE, patch |-> PadPatch(patch, size),
                                 location |-> location,
                                 original |-> [ptr |-> a.addr, len |-> a.len],
                                 code |-> encoded, given |-> patch]]

\* CodePatcher::new.  The result carries the world (the hook window is only
\* read), the allocator state after the call and the values computed on the way
CodePatcher_new(w, ps, M, os, location, patch) ==
    LET patch_size == Len(patch)
        max_size == patch_size + MAX_INSTR_LEN
        data == ReadBytes(w.mem, location, max_size)
        taken == TakeInstrs(data, location, 0, patch_size)
    IN [CodePatcher_new_encode(w, location, patch, taken,
           allocate(ps, M, os, location, SumLen(taken) * 2 + MAX_INSTR_LEN))
        EXCEPT !.read = DecoderReads(data, 0, patch_size)]

\* CodePatcher::patch: the payload goes through PermissionWrapper<BytePatcher>
CodePatcher_patch(w, c, osfail, gid) ==
    PermissionWrapper_patch(w, c.location, c.patch, osfail, gid)

-----------------------------------------------------------------------------
(* Initial states and inputs *)

GuardIds == 1 .. MaxGuardsCreated

\* code and data found at the hook site; the window is filled up with nops
Programs ==
    { << >>,
      <<176, 1, 144>>,
      <<15, 31, 0, 176, 1>>,
      <<227, 16, 227, 16, 227, 16>>,
      <<144, 6>>,
      <<102, 102, 102, 102, 102, 102, 46, 15, 31, 132, 0, 0, 0, 0, 0>> }

DataPrograms == { << >>, <<1, 2, 3, 4>> }

InitMem(prog) ==
    [ a \in Window |-> IF a - Location < Len(prog) THEN prog[a - Location + 1] ELSE NOP ]

InitProts ==
    { [ p \in WinPages |-> READ ],
      [ p \in WinPages |-> READ_WRITE ],
      [ p \in WinPages |-> READ_EXECUTE ],
      [ p \in WinPages |-> IF p = PageOf(Location) THEN READ_EXECUTE ELSE READ ] }

CodeProts ==
    { [ p \in WinPages |-> READ_EXECUTE ],
      [ p \in WinPages |-> IF p = PageOf(Location) THEN ProtAll ELSE READ_EXECUTE ] }

\* patches handed to the byte patcher and the permission wrapper
BytePatches == { p \in { << >>, <<5, 5>>, <<4, 3, 2, 1>> } : Len(p) < MaxPatchLen }
Offsets == {0, 1}

\* patches handed to CodePatcher::new
CodePatches ==
    { p \in { << >>, <<204>>, <<235, 254>>, <<233, 1, 0, 0, 0>> } : Len(p) <= MaxPatchLen }

\* origins and sizes handed to allocate
HighPage == NumPages - 2
\* an origin whose range ends on the last byte of the first page above the window
EdgeOrigin == (PageOf(Location) + 3) * PageSize - 1 - MaxDistance
Origins ==
    { PageSize, PageOf(Location) * PageSize + 10, Location, EdgeOrigin, HighPage * PageSize + 10 }
Sizes == {28, 40}

InitMapped == WinPages \cup {HighPage}

NoLast == [op |-> "none", res |-> "none", kind |-> "none", loc |-> 0, patch |-> << >>, gid |-> 0,
           log |-> << >>, premem |-> InitMem(<< >>), preprot |-> [ p \in WinPages |-> READ ],
           size |-> 0, taken |-> << >>, needed |-> 0, allocated |-> 0,
           instrs |-> << >>, err |-> NoError, copied |-> 0,
           osfail |-> FALSE, panicked |-> FALSE, read |-> {}]

NoSnap == [bytes |-> << >>, prot |-> [ p \in WinPages |-> READ ]]

NoALast == [op |-> "none", res |-> "none", origin |-> 0, size |-> 0, addr |-> 0,
            newpool |-> FALSE, prepools |-> << >>, premapped |-> {}, tried |-> << >>,
            range |-> [start |-> 0, end |-> 0], removed |-> FALSE]

NoScan == [live |-> FALSE, it |-> FreeRegionIter_new(0, [start |-> 0, end |-> 0], "After"),
           items |-> << >>, queried |-> << >>, pre |-> 0, nq |-> 0,
           ended |-> FALSE, os |-> NoOsFailure]

InitCommon ==
    /\ guards = [ g \in GuardIds |-> NoGuard ]
    /\ nguards = 0
    /\ wb = [ g \in GuardIds |-> 0 ]
    /\ halted = "no"
    /\ last = [NoLast EXCEPT !.premem = mem, !.preprot = prot]
    /\ cp = NoPatcher
    /\ pools = << >>
    /\ mapped = InitMapped
    /\ handles = {}
    /\ alast = NoALast
    /\ nnew = 0
    /\ snap = [ g \in GuardIds |-> NoSnap ]
    /\ mutex = [holder |-> NoThread, poisoned |-> FALSE]
    /\ threads = [ t \in Threads |-> IdleThread ]
    /\ acc = NoAccess
    /\ scan = NoScan

\* the byte patcher and the permission wrapper work on data
InitPatch ==
    /\ mem \in { InitMem(prog) : prog \in DataPrograms }
    /\ prot \in InitProts
    /\ InitCommon

\* the code patcher works on code; code pages are not writable
InitCode ==
    /\ mem \in { InitMem(prog) : prog \in Programs }
    /\ prot \in CodeProts
    /\ InitCommon

InitAlloc ==
    /\ mem = InitMem(<< >>)
    /\ prot = [ p \in WinPages |-> READ_EXECUTE ]
    /\ InitCommon

LiveGuards == { g \in GuardIds : guards[g].kind # "none" }

\* number of write-backs of guard gid in an operation's log
WriteBacks(log, gid) ==
    Cardinality({ k \in 1 .. Len(log) :
                    log[k].ev = "write" /\ log[k].why = "restore" /\ log[k].gid = gid })

-----------------------------------------------------------------------------
(* Operations of the byte patcher and the permission wrapper *)

\* BytePatcher::patch(location, patch); the caller guarantees writable memory
BytePatch(off, patch) ==
    /\ halted = "no"
    /\ nguards < MaxGuardsCreated
    /\ Cardinality(LiveGuards) < MaxGuards
    /\ Writable(World(mem, prot), Location + off, Len(patch))
    /\ LET gid == nguards + 1
           r == BytePatchGuard_patch(World(mem, prot), Location + off, patch, gid)
       IN /\ mem' = r.w.mem
          /\ prot' = r.w.prot
          /\ halted' = HaltOf(r.w)
          /\ guards' = [guards EXCEPT ![gid] = r.guard]
          /\ nguards' = gid
          /\ snap' = [snap EXCEPT ![gid] = [bytes |-> ReadBytes(mem, Location + off, Len(patch)),
                                            prot |-> prot]]
          /\ last' = [NoLast EXCEPT !.op = "byte_patch", !.res = "ok", !.kind = "byte",
                                    !.loc = Location + off,
                                    !.patch = patch, !.gid = gid, !.log = r.w.log,
                                    !.premem = mem, !.preprot = prot]
    /\ UNCHANGED <<tvars, scan>>
    /\ UNCHANGED <<wb, cp, pools, mapped, handles, alast, nnew>>

\* PermissionWrapper::<BytePatcher>::patch(location, patch)
PermPatch(off, patch, osfail) ==
    /\ halted = "no"
    /\ nguards < MaxGuardsCreated
    /\ Cardinality(LiveGuards) < MaxGuards
    /\ LET gid == nguards + 1
           r == PermissionWrapper_patch(World(mem, prot), Location + off, patch, osfail, gid)
       IN /\ mem' = r.w.mem
          /\ prot' = r.w.prot
          /\ halted' = HaltOf(r.w)
          /\ guards' = IF r.res = "ok" THEN [guards EXCEPT ![gid] = r.guard] ELSE guards
          /\ nguards' = IF r.res = "ok" THEN gid ELSE nguards
          /\ snap' = IF r.res = "ok"
                     THEN [snap EXCEPT ![gid] = [bytes |-> ReadBytes(mem, Location + off, Len(patch)),
                                                 prot |-> prot]]
                     ELSE snap
          /\ last' = [NoLast EXCEPT !.op = "perm_patch", !.res = r.res, !.kind = "perm",
                                    !.loc = Location + off,
                                    !.patch = patch, !.gid = IF r.res = "ok" THEN gid ELSE 0,
                                    !.log = r.w.log, !.premem = mem, !.preprot = prot,
                                    !.osfail = osfail, !.panicked = r.w.panicked]
    /\ UNCHANGED <<tvars, scan>>
    /\ UNCHANGED <<wb, cp, pools, mapped, handles, alast, nnew>>

\* the state after guard g has run its Drop; `how` tells restore() from an
\* implicit drop
Released(g, osfail, how) ==
    LET w == GuardDrop(World(mem, prot), guards[g], osfail, g)
    IN /\ mem' = w.mem
       /\ prot' = w.prot
       /\ halted' = HaltOf(w)
       /\ guards' = [guards EXCEPT ![g] = NoGuard]
       /\ wb' = [wb EXCEPT ![g] = @ + WriteBacks(w.log, g)]
       /\ last' = [NoLast EXCEPT !.op = how, !.res = HaltOf(w), !.kind = guards[g].kind,
                                 !.loc = guards[g].location,
                                 !.patch = guards[g].original, !.gid = g, !.log = w.log,
                                 !.premem = mem, !.preprot = prot,
                                 !.osfail = osfail, !.panicked = w.panicked]

\* guard.restore(): the empty method consumes the guard, which is dropped
Restore(g, osfail) ==
    /\ halted = "no"
    /\ g \in LiveGuards
    /\ Released(g, osfail, "restore")
    /\ UNCHANGED <<tvars, scan>>
    /\ UNCHANGED <<nguards, cp, pools, mapped, handles, alast, nnew, snap>>

\* the guard goes out of scope without restore()
DropGuard(g, osfail) ==
    /\ halted = "no"
    /\ g \in LiveGuards
    /\ Released(g, osfail, "drop")
    /\ UNCHANGED <<tvars, scan>>
    /\ UNCHANGED <<nguards, cp, pools, mapped, handles, alast, nnew, snap>>

NextPatch ==
    \/ \E off \in Offsets, patch \in BytePatches : BytePatch(off, patch)
    \/ \E off \in Offsets, patch \in BytePatches, osfail \in BOOLEAN : PermPatch(off, patch, osfail)
    \/ \E g \in GuardIds, osfail \in BOOLEAN : Restore(g, osfail)
    \/ \E g \in GuardIds, osfail \in BOOLEAN : DropGuard(g, osfail)

SpecPatch == InitPatch /\ [][NextPatch]_vars

-----------------------------------------------------------------------------
(* Operations of the code patcher *)

ALastOfAllocate(a, origin, size) ==
    [NoALast EXCEPT !.op = "allocate", !.res = a.res, !.origin = origin, !.size = size,
                    !.addr = a.addr, !.newpool = a.newpool, !.prepools = pools,
                    !.premapped = mapped, !.tried = a.tried, !.range = a.range]

\* the state after CodePatcher::new returned r
NewReturns(patch, r) ==
    /\ mem' = r.w.mem
    /\ prot' = r.w.prot
    /\ halted' = IF r.res = "panic" THEN "panic" ELSE HaltOf(r.w)
    /\ cp' = r.cp
    /\ pools' = r.pools
    /\ mapped' = r.mapped
    /\ alast' = ALastOfAllocate(r.alloc, Location, r.size * 2 + MAX_INSTR_LEN)
    /\ last' = [NoLast EXCEPT !.op = "new", !.res = r.res, !.loc = Location,
                              !.patch = patch, !.log = r.w.log, !.premem = mem,
                              !.preprot = prot, !.size = r.size, !.taken = r.taken,
                              !.needed = r.needed, !.allocated = r.allocated,
                              !.instrs = r.instructions, !.err = r.err, !.copied = r.copied,
                              !.read = r.read]

\* CodePatcher::<BytePatcher, X86_64>::new(BytePatcher, Location, patch)
New(patch, os) ==
    /\ halted = "no"
    /\ ~cp.live
    /\ nnew < MaxNew
    /\ nnew' = nnew + 1
    /\ NewReturns(patch, CodePatcher_new(World(mem, prot), pools, mapped, os, Location, patch))
    /\ UNCHANGED <<tvars, scan>>
    /\ UNCHANGED <<guards, nguards, wb, handles, snap>>

\* CodePatcher::patch(&self)
Patch(osfail) ==
    /\ halted = "no"
    /\ cp.live
    /\ nguards < MaxGuardsCreated
    /\ Cardinality(LiveGuards) < MaxGuards
    /\ LET gid == nguards + 1
           r == CodePatcher_patch(World(mem, prot), cp, osfail, gid)
       IN /\ mem' = r.w.mem
          /\ prot' = r.w.prot
          /\ halted' = HaltOf(r.w)
          /\ guards' = IF r.res = "ok" THEN [guards EXCEPT ![gid] = r.guard] ELSE guards
          /\ nguards' = IF r.res = "ok" THEN gid ELSE nguards
          /\ snap' = IF r.res = "ok"
                     THEN [snap EXCEPT ![gid] = [bytes |-> ReadBytes(mem, cp.location, Len(cp.patch)),
                                                 prot |-> prot]]
                     ELSE snap
          /\ last' = [NoLast EXCEPT !.op = "patch", !.res = r.res, !.kind = "perm",
                                    !.loc = cp.location,
                                    !.patch = cp.patch, !.gid = IF r.res = "ok" THEN gid ELSE 0,
                                    !.log = r.w.log, !.premem = mem, !.preprot = prot,
                                    !.size = Len(cp.patch),
                                    !.osfail = osfail, !.panicked = r.w.panicked]
    /\ UNCHANGED <<tvars, scan>>
    /\ UNCHANGED <<wb, cp, pools, mapped, handles, alast, nnew>>

\* the CodePatcher is dropped (its guards borrow it, so none is live): the
\* trampoline allocation `original` is released
DropPatcher ==
    /\ halted = "no"
    /\ cp.live
    /\ LiveGuards = {}
    /\ LET r == release(pools, mapped, cp.original.ptr)
       IN /\ pools' = r.pools
          /\ mapped' = r.mapped
          /\ halted' = IF r.panicked THEN "panic" ELSE "no"
          /\ alast' = [NoALast EXCEPT !.op = "release", !.res = IF r.panicked THEN "panic" ELSE "ok",
                                      !.addr = cp.original.ptr, !.size = cp.original.len,
                                      !.prepools = pools, !.premapped = mapped,
                                      !.removed = r.removed]
    /\ cp' = NoPatcher
    /\ last' = [NoLast EXCEPT !.op = "drop_patcher", !.res = "ok", !.premem = mem, !.preprot = prot]
    /\ UNCHANGED <<tvars, scan>>
    /\ UNCHANGED <<mem, prot, guards, nguards, wb, handles, nnew, snap>>

NextCode ==
    \/ \E patch \in CodePatches, os \in OsOracles : New(patch, os)
    \/ \E osfail \in BOOLEAN : Patch(osfail)
    \/ \E g \in GuardIds, osfail \in BOOLEAN : Restore(g, osfail)
    \/ \E g \in GuardIds, osfail \in BOOLEAN : DropGuard(g, osfail)
    \/ DropPatcher

SpecCode == InitCode /\ [][NextCode]_vars

-----------------------------------------------------------------------------
(* Operations of the allocator *)

\* the state after ProximityAllocator::allocate returned a
AllocateReturns(origin, size, a) ==
    /\ pools' = a.pools
    /\ mapped' = a.mapped
    /\ handles' = IF a.res = "ok" THEN handles \cup {[ptr |-> a.addr, len |-> a.len]}
                  ELSE handles
    /\ alast' = ALastOfAllocate(a, origin, size)

\* ThreadAllocator::allocate(origin, size), under the allocator's mutex
Allocate(origin, size, os) ==
    /\ halted = "no"
    /\ Cardinality(handles) < MaxHandles
    /\ AllocateReturns(origin, size, allocate(pools, mapped, os, origin, size))
    /\ halted' = IF alast'.res = "panic" THEN "panic" ELSE halted
    /\ UNCHANGED <<tvars, scan>>
    /\ UNCHANGED <<mem, prot, guards, nguards, wb, last, cp, nnew, snap>>

\* Drop for the ExecutableMemory at address ptr, under the allocator's mutex
ReleaseMemory(ptr) ==
    /\ halted = "no"
    /\ \E h \in handles : h.ptr = ptr
    /\ LET h == CHOOSE x \in handles : x.ptr = ptr
           r == release(pools, mapped, ptr)
       IN /\ pools' = r.pools
          /\ mapped' = r.mapped
          /\ halted' = IF r.panicked THEN "panic" ELSE "no"
          /\ alast' = [NoALast EXCEPT !.op = "release", !.res = IF r.panicked THEN "panic" ELSE "ok",
                                      !.addr = ptr, !.size = h.len, !.prepools = pools,
                                      !.premapped = mapped, !.removed = r.removed]
          /\ handles' = handles \ {h}
    /\ UNCHANGED <<tvars, scan>>
    /\ UNCHANGED <<mem, prot, guards, nguards, wb, last, cp, nnew, snap>>

NextAlloc ==
    \/ \E origin \in Origins, size \in Sizes, os \in OsOracles : Allocate(origin, size, os)
    \/ \E ptr \in Addresses : ReleaseMemory(ptr)

SpecAlloc == InitAlloc /\ [][NextAlloc]_vars

-----------------------------------------------------------------------------
(* Threads sharing the allocator *)

\* outcomes of the operating system the threaded runs draw from
ThreadOracles ==
    { NoOsFailure, [NoOsFailure EXCEPT !.mfail = Pages], [NoOsFailure EXCEPT !.checks = TRUE] }

\* origins the threads allocate near: the hook site, and one in the last pages
\* of the address space
ThreadOrigins == { Location, HighPage * PageSize + 10 }

\* sizes the threads ask for
ThreadSizes == { 40 }

\* a thread calls ThreadAllocator::allocate(origin, size) and stands at
\* `self.0.lock()`
RequestAllocate(t, origin, size) ==
    /\ threads[t].pc = "idle"
    /\ Cardinality(handles)
         + Cardinality({ u \in Threads : threads[u].pc \in {"lock_allocate", "allocate"} })
           < MaxHandles
    /\ threads' = [threads EXCEPT ![t] = [IdleThread EXCEPT !.pc = "lock_allocate",
                                                            !.origin = origin, !.size = size]]
    /\ UNCHANGED scan
    /\ UNCHANGED <<mem, prot, guards, nguards, wb, halted, last, cp, pools, mapped, handles,
                   alast, nnew, snap, mutex, acc>>

\* ThreadAllocator::allocate, `self.0.lock().unwrap()`: the thread gets the
\* mutex; a poisoned mutex makes unwrap panic and the guard is given up
LockForAllocate(t) ==
    /\ threads[t].pc = "lock_allocate"
    /\ MutexFree(mutex)
    /\ IF mutex.poisoned
       THEN /\ threads' = [threads EXCEPT ![t] = [IdleThread EXCEPT !.pc = "panicked"]]
            /\ UNCHANGED mutex
       ELSE /\ threads' = [threads EXCEPT ![t].pc = "allocate"]
            /\ mutex' = [mutex EXCEPT !.holder = t]
    /\ UNCHANGED scan
    /\ UNCHANGED <<mem, prot, guards, nguards, wb, halted, last, cp, pools, mapped, handles,
                   alast, nnew, snap, acc>>

\* ThreadAllocator::allocate, the call of ProximityAllocator::allocate and the
\* return, where the MutexGuard goes out of scope; a panic inside unwinds
\* through the MutexGuard, which poisons the mutex, and ends the thread
ThreadAllocate(t, os) ==
    /\ threads[t].pc = "allocate"
    /\ AllocateReturns(threads[t].origin, threads[t].size,
                       allocate(pools, mapped, os, threads[t].origin, threads[t].size))
    /\ acc' = [op |-> "allocate", thread |-> t, holder |-> mutex.holder]
    /\ mutex' = [holder |-> IF mutex.holder = t THEN NoThread ELSE mutex.holder,
                 poisoned |-> mutex.poisoned \/ alast'.res = "panic"]
    /\ threads' = [threads EXCEPT ![t] = IF alast'.res = "panic"
                                         THEN [IdleThread EXCEPT !.pc = "panicked"]
                                         ELSE IdleThread]
    /\ UNCHANGED <<mem, prot, guards, nguards, wb, halted, last, cp, nnew, snap, scan>>

\* a thread drops the ExecutableMemory at ptr, which it owns, and stands at
\* `self.allocator.lock()` in Drop::drop
RequestDrop(t, ptr) ==
    /\ threads[t].pc = "idle"
    /\ \E h \in handles : h.ptr = ptr
    /\ LET h == CHOOSE x \in handles : x.ptr = ptr
       IN /\ handles' = handles \ {h}
          /\ threads' = [threads EXCEPT ![t] = [IdleThread EXCEPT !.pc = "lock_drop",
                                                                  !.ptr = ptr, !.len = h.len]]
    /\ UNCHANGED scan
    /\ UNCHANGED <<mem, prot, guards, nguards, wb, halted, last, cp, pools, mapped,
                   alast, nnew, snap, mutex, acc>>

\* Drop for ExecutableMemory, `self.allocator.lock().unwrap()`: the thread
\* gets the mutex; with a poisoned mutex unwrap panics in drop and the field
\* `data` is still dropped
LockForDrop(t) ==
    /\ threads[t].pc = "lock_drop"
    /\ MutexFree(mutex)
    /\ IF mutex.poisoned
       THEN /\ threads' = [threads EXCEPT ![t].pc = "slice_drop", ![t].panic = TRUE]
            /\ UNCHANGED mutex
       ELSE /\ threads' = [threads EXCEPT ![t].pc = "release"]
            /\ mutex' = [mutex EXCEPT !.holder = t]
    /\ UNCHANGED scan
    /\ UNCHANGED <<mem, prot, guards, nguards, wb, halted, last, cp, pools, mapped, handles,
                   alast, nnew, snap, acc>>

\* Drop for ExecutableMemory, the call of ProximityAllocator::release and the
\* end of the statement, where the MutexGuard is dropped; a panic inside
\* poisons the mutex
ThreadRelease(t) ==
    /\ threads[t].pc = "release"
    /\ LET r == ProximityAllocator_release(pools, threads[t].ptr)
       IN /\ pools' = r.pools
          /\ mutex' = [holder |-> IF mutex.holder = t THEN NoThread ELSE mutex.holder,
                       poisoned |-> mutex.poisoned \/ r.panicked]
          /\ threads' = [threads EXCEPT ![t].pc = "slice_drop",
                                        ![t].panic = r.panicked,
                                        ![t].rel = [removed |-> r.removed, pool |-> r.pool]]
          /\ alast' = [NoALast EXCEPT !.op = "list_release",
                                      !.res = IF r.panicked THEN "panic" ELSE "ok",
                                      !.addr = threads[t].ptr, !.size = threads[t].len,
                                      !.prepools = pools, !.premapped = mapped,
                                      !.removed = r.removed]
    /\ acc' = [op |-> "release", thread |-> t, holder |-> mutex.holder]
    /\ UNCHANGED <<mem, prot, guards, nguards, wb, halted, last, cp, mapped, handles, nnew, snap, scan>>

\* the field `data` of the ExecutableMemory is dropped after Drop::drop; a
\* thread whose Drop::drop panicked ends here
SliceDrop(t) ==
    /\ threads[t].pc = "slice_drop"
    /\ LET d == SliceBox_drop(pools, mapped, threads[t].ptr, threads[t].rel)
       IN /\ pools' = d.pools
          /\ mapped' = d.mapped
    /\ threads' = [threads EXCEPT ![t] = IF threads[t].panic
                                         THEN [IdleThread EXCEPT !.pc = "panicked"]
                                         ELSE IdleThread]
    /\ UNCHANGED scan
    /\ UNCHANGED <<mem, prot, guards, nguards, wb, halted, last, cp, handles, alast, nnew, snap,
                   mutex, acc>>

NextThreads ==
    \/ \E t \in Threads, origin \in ThreadOrigins, size \in ThreadSizes : RequestAllocate(t, origin, size)
    \/ \E t \in Threads : LockForAllocate(t)
    \/ \E t \in Threads, os \in ThreadOracles : ThreadAllocate(t, os)
    \/ \E t \in Threads, ptr \in Addresses : RequestDrop(t, ptr)
    \/ \E t \in Threads : LockForDrop(t)
    \/ \E t \in Threads : ThreadRelease(t)
    \/ \E t \in Threads : SliceDrop(t)

SpecThreads == InitAlloc /\ [][NextThreads]_vars

\* the step ThreadAllocate(t, os) as the control state of thread t shows it:
\* the thread leaves ProximityAllocator::allocate, by a return or by a panic.
\* ThreadAllocate is enabled whenever the thread is inside, and no other
\* action moves a thread out of "allocate".
ThreadAllocateLeaves(t) ==
    /\ threads[t].pc = "allocate"
    /\ \E pc \in {"idle", "panicked"} :
           threads' = [threads EXCEPT ![t] = [IdleThread EXCEPT !.pc = pc]]

\* the same threads under a fair scheduler: a thread that can take a step
\* takes it, and a thread waiting for the mutex gets it when it is free again
\* and again
ThreadFairness ==
    \A t \in Threads :
        /\ SF_vars(LockForAllocate(t))
        /\ SF_vars(LockForDrop(t))
        /\ WF_threads(ThreadAllocateLeaves(t))
        /\ WF_vars(ThreadRelease(t))
        /\ WF_vars(SliceDrop(t))

SpecThreadsFair == SpecThreads /\ ThreadFairness

-----------------------------------------------------------------------------
(* The region scanner on its own: search::after / search::before over any   *)
(* memory map                                                               *)

ScanOrigins == { 0, PageSize, Location, HighPage * PageSize + 10 }

ScanOracles ==
    { NoOsFailure, [NoOsFailure EXCEPT !.checks = TRUE] }
    \cup { [NoOsFailure EXCEPT !.qerr = p] : p \in {1, HighPage - 1} }

MaxScanCalls == NumPages + 2

\* the range handed to the scanner: the one allocate computes, or the default
\* of FreeRegionIter::new for None, 0..usize::max_value()
ScanRange(origin, ranged) ==
    IF ranged
    THEN [start |-> saturating_sub(origin, MaxDistance), end |-> saturating_add(origin, MaxDistance)]
    ELSE [start |-> 0, end |-> USIZE_MAX]

InitScan ==
    /\ mem = InitMem(<< >>)
    /\ prot = [ p \in WinPages |-> READ_EXECUTE ]
    /\ guards = [ g \in GuardIds |-> NoGuard ]
    /\ nguards = 0
    /\ wb = [ g \in GuardIds |-> 0 ]
    /\ halted = "no"
    /\ last = [NoLast EXCEPT !.premem = mem, !.preprot = prot]
    /\ cp = NoPatcher
    /\ pools = << >>
    /\ mapped \in SUBSET Pages
    /\ handles = {}
    /\ alast = NoALast
    /\ nnew = 0
    /\ snap = [ g \in GuardIds |-> NoSnap ]
    /\ mutex = [holder |-> NoThread, poisoned |-> FALSE]
    /\ threads = [ t \in Threads |-> IdleThread ]
    /\ acc = NoAccess
    /\ scan = NoScan

\* search::after(origin, range) / search::before(origin, range)
ScanStart(origin, ranged, search) ==
    /\ halted = "no"
    /\ ~scan.live
    /\ scan' = [NoScan EXCEPT !.live = TRUE,
                              !.it = FreeRegionIter_new(origin, ScanRange(origin, ranged), search),
                              !.pre = origin]
    /\ UNCHANGED tvars
    /\ UNCHANGED <<mem, prot, guards, nguards, wb, halted, last, cp, pools, mapped, handles,
                   alast, nnew, snap>>

\* the state after next() returned r
ScanReturns(os, r) ==
    /\ scan' = [scan EXCEPT !.it = r.it,
                            !.items = Append(@, r.item),
                            !.queried = r.queried,
                            !.pre = scan.it.current,
                            !.nq = @ + Len(r.queried),
                            !.ended = \E k \in 1 .. Len(scan.items) : scan.items[k].kind = "none",
                            !.os = os]
    /\ halted' = IF r.item.kind = "panic" THEN "panic" ELSE halted

\* one call of FreeRegionIter::next; at most one region query of a scan
\* fails with an error other than UnmappedRegion
ScanNext(os) ==
    /\ halted = "no"
    /\ scan.live
    /\ Len(scan.items) < MaxScanCalls
    /\ os.qerr # -1 => \A k \in 1 .. Len(scan.items) : scan.items[k].kind # "err"
    /\ ScanReturns(os, FreeRegionIter_next(scan.it, mapped, os))
    /\ UNCHANGED tvars
    /\ UNCHANGED <<mem, prot, guards, nguards, wb, last, cp, pools, mapped, handles,
                   alast, nnew, snap>>

NextScan ==
    \/ \E origin \in ScanOrigins, ranged \in BOOLEAN, search \in {"After", "Before"} :
          ScanStart(origin, ranged, search)
    \/ \E os \in ScanOracles : ScanNext(os)

SpecScan == InitScan /\ [][NextScan]_vars

-----------------------------------------------------------------------------
(* Properties *)

IsRelease(op) == op \in {"restore", "drop"}

InPatch(a, loc, n) == loc <= a /\ a < loc + n

\* C1: every error outcome of CodePatcher::new (decode/encode error, allocation
\* error, BufferTooSmall) and of CodePatcher::patch (ProtectionError) leaves the
\* bytes at the hook site exactly as they were before the call.
C1_AllOrNothing ==
    (last.op \in {"new", "patch"} /\ last.res # "ok") => mem = last.premem

C1_Witness ==
    /\ last.op = "new"
    /\ last.res = "BufferTooSmall"
    /\ last.needed > last.allocated

\* C2: after BytePatcher.patch(location, bytes) the n bytes at location equal
\* `bytes`; after the guard is released, by restore() or by a drop, they equal
\* the n bytes found there immediately before the patch.
C2_ByteRoundTrip ==
    /\ (last.op = "byte_patch") =>
           ReadBytes(mem, last.loc, Len(last.patch)) = last.patch
    /\ (IsRelease(last.op) /\ last.kind = "byte") =>
           ReadBytes(mem, last.loc, Len(snap[last.gid].bytes)) = snap[last.gid].bytes

C2_Witness ==
    /\ last.op = "drop"
    /\ last.kind = "byte"
    /\ Len(snap[last.gid].bytes) = 4
    /\ mem # last.premem

\* C3: the overwrite size computed by CodePatcher::new is an instruction
\* boundary of the code at the hook site, is at least the requested length n,
\* and is the first boundary at or after n: every included instruction is whole
\* and starts at an offset below n.
RECURSIVE Boundaries(_, _, _)
Boundaries(data, off, limit) ==
    IF off >= limit \/ off >= Len(data) THEN {off}
    ELSE {off} \cup Boundaries(data, off + Decode(data, off, 0).len, limit)

C3_InstructionBoundary ==
    (last.op = "new") =>
        LET n == Len(last.patch)
            data == ReadBytes(last.premem, Location, n + MAX_INSTR_LEN)
            B == Boundaries(data, 0, n)
        IN /\ last.size \in B
           /\ last.size >= n
           /\ \A b \in B : b >= n => b >= last.size
           /\ last.size = SumLen(last.taken)
           /\ \A k \in 1 .. Len(last.taken) :
                  /\ SumLen(SubSeq(last.taken, 1, k - 1)) < n
                  /\ last.taken[k].len =
                         Decode(data, SumLen(SubSeq(last.taken, 1, k - 1)), 0).len

C3_Witness ==
    /\ last.op = "new"
    /\ Len(last.patch) = 1
    /\ last.size = 2

\* C4: a successful allocate(origin, size) returns an address addr with
\* origin.saturating_sub(max_distance) <= addr <= origin.saturating_add(max_distance),
\* from an existing pool as well as from a newly mapped one.
C4_RangeInvariant ==
    (alast.op = "allocate" /\ alast.res = "ok") =>
        /\ saturating_sub(alast.origin, MaxDistance) <= alast.addr
        /\ alast.addr <= saturating_add(alast.origin, MaxDistance)

C4_Witness ==
    /\ alast.op = "allocate"
    /\ alast.res = "ok"
    /\ ~alast.newpool
    /\ alast.prepools # << >>
    /\ alast.addr < alast.origin

\* C5: when a PermissionWrapper guard is released the protection is elevated
\* first, then the original bytes are written back, and only then is the
\* previous protection reinstated; no write-back follows the revert.
C5_RestoreOrdering ==
    (IsRelease(last.op) /\ last.kind = "perm") =>
        /\ \A i, j \in 1 .. Len(last.log) :
               (last.log[i].ev = "unprotect" /\ last.log[j].ev = "write") => j < i
        /\ (last.res = "no") =>
               /\ Len(last.log) = 3
               /\ last.log[1].ev = "protect"
               /\ last.log[2].ev = "write" /\ last.log[2].why = "restore"
               /\ last.log[2].elevated
               /\ last.log[3].ev = "unprotect"

C5_Witness ==
    /\ IsRelease(last.op)
    /\ last.kind = "perm"
    /\ last.res = "no"
    /\ mem # last.premem
    /\ \E p \in WinPages : "w" \notin prot[p]

\* C6: for PermissionWrapper over BytePatcher the protection flags right after
\* patch() returned are those from before the call, with the patch written;
\* after restore() the data and the flags both equal their pre-patch values.
C6_PermissionPreservation ==
    /\ (last.op = "perm_patch" /\ last.res = "ok") =>
           /\ prot = last.preprot
           /\ ReadBytes(mem, last.loc, Len(last.patch)) = last.patch
    /\ (IsRelease(last.op) /\ last.kind = "perm" /\ last.res = "no") =>
           /\ prot = snap[last.gid].prot
           /\ ReadBytes(mem, last.loc, Len(snap[last.gid].bytes)) = snap[last.gid].bytes

C6_Witness ==
    /\ last.op = "restore"
    /\ last.kind = "perm"
    /\ last.res = "no"
    /\ \A p \in WinPages : prot[p] = READ
    /\ ReadBytes(mem, Location, 4) = <<1, 2, 3, 4>>
    /\ ReadBytes(last.premem, Location, 4) = <<4, 3, 2, 1>>

\* C7: patching n bytes at location and restoring them later leaves every byte
\* outside [location, location+n) unchanged, after the patch and after the
\* restore.
C7_Locality ==
    (last.op \in {"byte_patch", "perm_patch"} \/ IsRelease(last.op)) =>
        \A a \in Window :
            ~InPatch(a, last.loc, Len(last.patch)) => mem[a] = last.premem[a]

C7_Witness ==
    /\ last.op = "restore"
    /\ last.kind = "byte"
    /\ last.loc = Location + 1
    /\ ReadBytes(last.premem, Location, 4) = <<1, 5, 5, 4>>
    /\ ReadBytes(mem, Location, 4) = <<1, 2, 3, 4>>

\* C8: in every reachable state in which a guard returned by CodePatcher::patch
\* is live, the memory at [location, location + true overwrite size) holds the
\* patch payload (the caller's bytes padded with no-ops).
C8_PatchRecordInvariant ==
    (halted = "no" /\ LiveGuards # {}) =>
        ReadBytes(mem, cp.location, Len(cp.patch)) = cp.patch

\* C9: the hook site is written only in the order Built -> Applied -> Restored:
\* CodePatcher::new writes nothing, patch() writes the payload of a built
\* patcher, a guard's release issues the write-back of its snapshot exactly
\* once (after which the site holds the snapshot), and a released guard is
\* never released again.
C9_StateMachine ==
    /\ (last.op = "new") => (mem = last.premem /\ last.log = << >>)
    /\ (mem # last.premem) => (last.op = "patch" \/ IsRelease(last.op))
    /\ (last.op = "patch" /\ last.res = "ok") =>
           (cp.live /\ ReadBytes(mem, cp.location, Len(cp.patch)) = cp.patch)
    /\ IsRelease(last.op) =>
           /\ WriteBacks(last.log, last.gid) = 1
           /\ (halted # "segv") =>
                  ReadBytes(mem, last.loc, Len(snap[last.gid].bytes)) = snap[last.gid].bytes
    /\ \A g \in GuardIds :
           /\ wb[g] <= 1
           /\ (g \in LiveGuards) => (g <= nguards /\ wb[g] = 0)
           /\ (g <= nguards /\ g \notin LiveGuards) => wb[g] = 1
           /\ (g > nguards) => (g \notin LiveGuards /\ wb[g] = 0)

C9_Witness ==
    /\ IsRelease(last.op)
    /\ wb[last.gid] = 1
    /\ last.gid \notin LiveGuards
    /\ mem # last.premem
    /\ cp.live

\* C10: a pool leaves the allocator's pool list exactly when its live-allocation
\* count reaches zero: releasing the sole live allocation of a pool leaves no
\* pool registered at that base, releasing one of several leaves it registered.
PoolOf(ps, ptr) == CHOOSE i \in 1 .. Len(ps) : PoolContains(ps[i], ptr)

C10_PoolLifetime ==
    (alast.op = "release" /\ alast.res = "ok") =>
        LET pool == alast.prepools[PoolOf(alast.prepools, alast.addr)]
            registered == \E i \in 1 .. Len(pools) : pools[i].base = pool.base
        IN (Cardinality(pool.allocs) = 1) <=> ~registered

\* C11: with several threads allocating and dropping allocations, at most one
\* thread at a time is inside ProximityAllocator::allocate or ::release, that
\* thread holds the mutex, and every access to the pool list is made by the
\* thread holding the mutex.
C11_Serialization ==
    /\ Cardinality({ t \in Threads : Inside(t) }) <= 1
    /\ \A t \in Threads : Inside(t) => mutex.holder = t
    /\ (acc.op # "none") => acc.holder = acc.thread

C11_Witness ==
    /\ \E t \in Threads : Inside(t) /\ threads[t].pc = "allocate"
    /\ \E u \in Threads : threads[u].pc = "slice_drop"
    /\ acc.op = "release"
    /\ handles # {}

\* C12: the instruction list handed to the encoder for the trampoline is the
\* included original instructions in their original order followed by exactly
\* one relative jump, and the target of that jump is location + true overwrite
\* size; the encoded trampoline keeps that order.
C12_TrampolineLayout ==
    (last.op = "new") =>
        LET n == Len(last.taken)
            data == ReadBytes(last.premem, Location, Len(last.patch) + MAX_INSTR_LEN)
        IN /\ Len(last.instrs) = n + 1
           /\ \A k \in 1 .. n :
                  /\ last.instrs[k] = last.taken[k]
                  /\ last.instrs[k] =
                         Decode(data, SumLen(SubSeq(last.taken, 1, k - 1)),
                                Location + SumLen(SubSeq(last.taken, 1, k - 1)))
           /\ last.instrs[n + 1].code = "jmp_rel32"
           /\ last.instrs[n + 1].target = Location + last.size
           /\ (last.res = "ok") =>
                  /\ Len(cp.code) = n + 1
                  /\ \A k \in 1 .. (n + 1) :
                         /\ cp.code[k].code = last.instrs[k].code
                         /\ cp.code[k].target = last.instrs[k].target

C12_Witness ==
    /\ last.op = "new"
    /\ last.res = "ok"
    /\ Len(last.patch) = 2
    /\ Len(last.taken) = 2
    /\ \A k \in 1 .. 2 : cp.code[k].code = "nop"
    /\ cp.code[3].code = "jmp_rel32"
    /\ cp.code[3].target = Location + 2

\* C13: every byte of an allocation returned for an origin lies inside
\* [origin.saturating_sub(max_distance), origin.saturating_add(max_distance)],
\* also when the slice comes from a pool newly mapped near the end of the range.
C13_WholeAllocationInRange ==
    (alast.op = "allocate" /\ alast.res = "ok") =>
        /\ saturating_sub(alast.origin, MaxDistance) <= alast.addr
        /\ alast.addr + alast.size - 1 <= saturating_add(alast.origin, MaxDistance)

\* C14: if a registered pool lies entirely inside the proximity range
\* [origin.saturating_sub(max_distance), origin.saturating_add(max_distance)] of
\* an allocate call and has a free span of at least the requested size, the
\* allocation is taken from such a pool, no mapping is attempted and the pool
\* list does not grow.
HasFreeSpan(pool, size) ==
    \E o \in 0 .. (pool.len - size) :
        \A a \in pool.allocs : o + size <= a.off \/ a.off + a.len <= o

PoolInsideRange(pool, origin) ==
    /\ saturating_sub(origin, MaxDistance) <= pool.base
    /\ pool.base + pool.len - 1 <= saturating_add(origin, MaxDistance)

C14_PoolReuse ==
    (alast.op = "allocate") =>
        LET usable == { i \in 1 .. Len(alast.prepools) :
                          /\ PoolInsideRange(alast.prepools[i], alast.origin)
                          /\ HasFreeSpan(alast.prepools[i], alast.size) }
        IN (usable # {}) =>
               /\ alast.res = "ok"
               /\ ~alast.newpool
               /\ alast.tried = << >>
               /\ Len(pools) = Len(alast.prepools)
               /\ mapped = alast.premapped
               /\ \E i \in usable : PoolContains(alast.prepools[i], alast.addr)

\* C14 (amended): the same with the range taken as the code takes it, the end
\* origin.saturating_add(max_distance) excluded: a registered pool whose span
\* lies inside [start, end) and that has a free span of the requested size
\* serves the allocation, nothing is mapped and the pool list does not grow.
PoolInsideHalfOpenRange(pool, origin) ==
    /\ saturating_sub(origin, MaxDistance) <= pool.base
    /\ pool.base + pool.len - 1 < saturating_add(origin, MaxDistance)

C14_PoolReuseHalfOpen ==
    (alast.op = "allocate") =>
        LET usable == { i \in 1 .. Len(alast.prepools) :
                          /\ PoolInsideHalfOpenRange(alast.prepools[i], alast.origin)
                          /\ HasFreeSpan(alast.prepools[i], alast.size) }
        IN (usable # {}) =>
               /\ alast.res = "ok"
               /\ ~alast.newpool
               /\ alast.tried = << >>
               /\ Len(pools) = Len(alast.prepools)
               /\ mapped = alast.premapped
               /\ \E i \in usable : PoolContains(alast.prepools[i], alast.addr)

C14_Witness ==
    /\ alast.op = "allocate"
    /\ alast.res = "ok"
    /\ Len(alast.prepools) = 1
    /\ alast.prepools[1].allocs # {}
    /\ PoolInsideHalfOpenRange(alast.prepools[1], alast.origin)
    /\ Len(pools) = 1
    /\ alast.addr = alast.prepools[1].base + 28

\* C15: when a fixed-address mapping attempt for a new pool fails with a
\* mapping error other than out-of-memory, allocate returns MmapError and no
\* further candidate address is tried.
C15_MmapErrorPropagated ==
    (alast.op = "allocate") =>
        \A k \in 1 .. Len(alast.tried) :
            (alast.tried[k].res = "MmapError") =>
                (alast.res = "MmapError" /\ k = Len(alast.tried))

\* C16: a protection change that fails inside PermissionWrapper::patch makes
\* patch return ProtectionError with the inner patcher not run (nothing is
\* written, no flag changes) and no guard created; one that fails while a
\* guard is released raises a panic.
C16_ProtectionFailureSurfaces ==
    /\ (last.op = "perm_patch" /\ (last.osfail \/ Len(last.patch) = 0)) =>
           /\ last.res = "ProtectionError"
           /\ last.log = << >>
           /\ mem = last.premem
           /\ prot = last.preprot
           /\ last.gid = 0
           /\ \A g \in GuardIds : g > nguards => guards[g] = NoGuard
    /\ (last.op = "perm_patch" /\ last.res = "ProtectionError") =>
           (last.osfail \/ Len(last.patch) = 0)
    /\ (IsRelease(last.op) /\ last.kind = "perm") =>
           (last.panicked <=> last.osfail)

C16_Witness ==
    /\ IsRelease(last.op)
    /\ last.kind = "perm"
    /\ last.osfail
    /\ last.panicked
    /\ nguards = MaxGuardsCreated
    /\ \E g \in LiveGuards : guards[g].kind = "perm"

\* C17: if the re-encoded length exceeds the length of the allocated buffer,
\* CodePatcher::new fails with BufferTooSmall(allocated length, needed length,
\* location), location being the hook site, and copies nothing; otherwise the
\* whole encoded sequence is copied and never more bytes than the buffer holds.
C17_NoTruncation ==
    (last.op = "new" /\ last.res \in {"ok", "BufferTooSmall"}) =>
        /\ (SumLen(Encode(last.instrs, Location, Location + last.size)) > last.allocated) =>
               /\ last.res = "BufferTooSmall"
               /\ last.err.allocated = last.allocated
               /\ last.err.needed = SumLen(Encode(last.instrs, Location, Location + last.size))
               /\ last.err.location = Location
               /\ last.copied = 0
        /\ (SumLen(Encode(last.instrs, Location, Location + last.size)) <= last.allocated) =>
               /\ last.res = "ok"
               /\ last.copied = SumLen(cp.code)
               /\ last.copied <= cp.original.len

\* C17 (amended): the same, the third value of BufferTooSmall being the address
\* of the allocated trampoline buffer (original.as_ptr()), not the hook site.
C17_NoTruncationBufferAddress ==
    (last.op = "new" /\ last.res \in {"ok", "BufferTooSmall"}) =>
        /\ (SumLen(Encode(last.instrs, Location, Location + last.size)) > last.allocated) =>
               /\ last.res = "BufferTooSmall"
               /\ last.err.allocated = last.allocated
               /\ last.err.needed = SumLen(Encode(last.instrs, Location, Location + last.size))
               /\ last.err.location = alast.addr
               /\ alast.op = "allocate" /\ alast.res = "ok"
               /\ last.copied = 0
        /\ (SumLen(Encode(last.instrs, Location, Location + last.size)) <= last.allocated) =>
               /\ last.res = "ok"
               /\ last.copied = SumLen(cp.code)
               /\ last.copied <= cp.original.len

C17_Witness ==
    /\ last.op = "new"
    /\ last.res = "BufferTooSmall"
    /\ last.err.needed > last.err.allocated
    /\ last.err.location # Location
    /\ ~cp.live


\* C18: the allocation behind original() is a live slice of a registered,
\* mapped pool in every state from the successful return of CodePatcher::new
\* until the CodePatcher is dropped, whatever guards were created and released
\* meanwhile; a live guard implies a live CodePatcher, and the release of the
\* trampoline happens only with no guard live.
Allocated(ps, M, ptr, len) ==
    \E i \in 1 .. Len(ps) :
        /\ PoolContains(ps[i], ptr)
        /\ \E a \in ps[i].allocs : ps[i].base + a.off = ptr /\ a.len = len
        /\ PoolPages(ps[i].base, ps[i].len) \subseteq M

RegisteredPools(ps) == { [base |-> ps[i].base, len |-> ps[i].len] : i \in 1 .. Len(ps) }

C19_NoPartialState ==
    (last.op = "new" /\ last.res \in {"IcedError", "BufferTooSmall"}) =>
        /\ ~cp.live
        /\ ~Allocated(pools, mapped, alast.addr, alast.size)
        /\ RegisteredPools(pools) = RegisteredPools(alast.prepools)
        /\ mapped = alast.premapped


\* C20: over every sequence of allocations and releases of allocations taken
\* from the allocator, every live allocation lies in the address range of a
\* registered pool, every release found such a pool for its pointer, and the
\* panic "retrieving associated memory pool" never happened.
C20_ReleaseNeverPanics ==
    /\ alast.op = "release" => halted # "panic"
    /\ \A h \in handles : \E i \in 1 .. Len(pools) : PoolContains(pools[i], h.ptr)
    /\ alast.op = "release" =>
           /\ alast.res = "ok"
           /\ \E i \in 1 .. Len(alast.prepools) : PoolContains(alast.prepools[i], alast.addr)

\* two pools are registered, allocations of both were released, the last
\* release was that of the only live slice of its pool, and none is left
C20_Witness ==
    /\ alast.op = "release"
    /\ alast.res = "ok"
    /\ Len(alast.prepools) >= 2
    /\ Cardinality(alast.prepools[PoolOf(alast.prepools, alast.addr)].allocs) = 1
    /\ handles = {}


\* C21: CodePatcher::new and the decoder it runs read only bytes among the
\* first patch.len() + 14 bytes starting at `location`, the extent the caller
\* is told to keep valid.
DocValidExtent(patch_size) == patch_size + 14

C21_ReadBound ==
    last.op = "new" => \A o \in last.read : o < DocValidExtent(Len(last.patch))


\* C22: an allocate call takes a slice from an already registered pool only
\* if the whole span [base, base+len) of that pool lies inside the proximity
\* range of the request; a pool that is only partly inside is left untouched,
\* also when the slice it would hand out lies inside the range.
C22_PoolEligibility ==
    (alast.op = "allocate") =>
        \A i \in 1 .. Len(alast.prepools) :
            /\ pools[i].base = alast.prepools[i].base
            /\ pools[i].allocs # alast.prepools[i].allocs =>
                   /\ PoolInsideRange(alast.prepools[i], alast.origin)
                   /\ alast.res = "ok"
                   /\ ~alast.newpool
                   /\ PoolContains(alast.prepools[i], alast.addr)

\* a registered pool starts inside the range and ends outside of it, its
\* first free span would give a slice inside the range, and it was not used
C22_Witness ==
    /\ alast.op = "allocate"
    /\ \E i \in 1 .. Len(alast.prepools) :
          LET pool == alast.prepools[i]
              slice == pool.base + SlicePool_alloc(pool, alast.size).off
          IN /\ ~PoolInsideRange(pool, alast.origin)
             /\ SlicePool_alloc(pool, alast.size).ok
             /\ saturating_sub(alast.origin, MaxDistance) <= slice
             /\ slice + alast.size - 1 <= saturating_add(alast.origin, MaxDistance)
             /\ pools[i].allocs = pool.allocs
    /\ alast.res = "ok"
    /\ alast.newpool


\* C23: every candidate a scan yields was reported unmapped by the region
\* query at that address and lies inside the bound range; an address in a
\* mapped region is never yielded; consecutive candidates of one scan are
\* strictly increasing for `after`, strictly decreasing for `before`, and one
\* page apart when the neighbouring page is free as well.
ScanCandidates == SelectSeq(scan.items, LAMBDA i : i.kind = "ok")

C23_ScannerCandidates ==
    scan.live =>
        /\ \A k \in 1 .. Len(scan.items) :
              scan.items[k].kind = "ok" =>
                  /\ PageOf(scan.items[k].addr) \notin mapped
                  /\ InRange(scan.it.range, scan.items[k].addr)
                  /\ scan.items[k].addr > 0
        /\ (scan.items # << >> /\ scan.items[Len(scan.items)].kind = "ok") =>
              /\ region_query(mapped, scan.os, scan.items[Len(scan.items)].addr).kind = "unmapped"
              /\ scan.queried # << >>
              /\ scan.queried[Len(scan.queried)] = scan.items[Len(scan.items)].addr
        /\ \A k \in 1 .. (Len(ScanCandidates) - 1) :
              IF scan.it.search = "After"
              THEN ScanCandidates[k + 1].addr > ScanCandidates[k].addr
              ELSE ScanCandidates[k + 1].addr < ScanCandidates[k].addr
        /\ \A k \in 1 .. (Len(scan.items) - 1) :
              (scan.items[k].kind = "ok" /\ scan.items[k + 1].kind = "ok") =>
                  LET a == scan.items[k].addr
                      b == scan.items[k + 1].addr
                  IN IF scan.it.search = "After"
                     THEN (a + PageSize <= USIZE_MAX /\ PageOf(a + PageSize) \notin mapped)
                              => b = a + PageSize
                     ELSE (a >= PageSize /\ PageOf(a - PageSize) \notin mapped)
                              => b = a - PageSize


\* C24: in every call of next, each address handed to the region query lies
\* inside the bound range and is not zero, `current` moves strictly in the
\* search direction from one query to the next and to the value it is left
\* with, a call that starts with `current` outside the range or at zero makes
\* no query and yields nothing, a scan that yielded nothing once yields
\* nothing afterwards, no call panics, and a scan makes at most one query
\* per page of the address space.
ScanPath == scan.queried \o << scan.it.current >>

C24_ScannerTermination ==
    (scan.live /\ scan.items # << >>) =>
        LET item == scan.items[Len(scan.items)]
        IN /\ halted # "panic"
           /\ item.kind # "panic"
           /\ \A k \in 1 .. Len(scan.queried) :
                 scan.queried[k] > 0 /\ InRange(scan.it.range, scan.queried[k])
           /\ \A k \in 1 .. (Len(ScanPath) - 1) :
                 IF scan.it.search = "After" THEN ScanPath[k + 1] > ScanPath[k]
                 ELSE ScanPath[k + 1] < ScanPath[k]
           /\ (scan.pre = 0 \/ ~InRange(scan.it.range, scan.pre)) =>
                 (scan.queried = << >> /\ item.kind = "none")
           /\ item.kind = "none" =>
                 (scan.it.current = 0 \/ ~InRange(scan.it.range, scan.it.current))
           /\ scan.ended => (item.kind = "none" /\ scan.queried = << >>)
           /\ scan.nq <= NumPages


\* C25: the candidates handed to the mapping call come first from the `after`
\* scan, all at or above the origin, and only then from the `before` scan; a
\* pool found by the `before` scan is mapped only when every candidate of the
\* `after` scan inside the range was tried and could not be mapped.
RECURSIVE AfterCandidates(_, _)
AfterCandidates(it, M) ==
    LET r == FreeRegionIter_next(it, M, NoOsFailure)
    IN IF r.item.kind # "ok" THEN << >> ELSE << r.item.addr >> \o AfterCandidates(r.it, M)

TriedBy(search) == SelectSeq(alast.tried, LAMBDA e : e.search = search)

C25_SearchOrder ==
    (alast.op = "allocate" /\ alast.tried # << >>) =>
        /\ \A j, k \in 1 .. Len(alast.tried) :
              (j < k /\ alast.tried[j].search = "Before") => alast.tried[k].search = "Before"
        /\ \A k \in 1 .. Len(alast.tried) :
              IF alast.tried[k].search = "After" THEN alast.tried[k].addr >= alast.origin
              ELSE alast.tried[k].addr <= alast.origin
        /\ (alast.res = "ok" /\ alast.tried[Len(alast.tried)].search = "Before") =>
              /\ [ k \in 1 .. Len(TriedBy("After")) |-> TriedBy("After")[k].addr ]
                    = AfterCandidates(FreeRegionIter_new(alast.origin, alast.range, "After"),
                                      alast.premapped)
              /\ \A k \in 1 .. Len(TriedBy("After")) : TriedBy("After")[k].res # "ok"
        /\ (alast.res = "ok" /\ alast.newpool /\ alast.addr < alast.origin) =>
              alast.tried[Len(alast.tried)].search = "Before"

\* a pool was mapped below the origin after the candidate of the `after`
\* scan had been refused
C25_Witness ==
    /\ alast.op = "allocate"
    /\ alast.res = "ok"
    /\ alast.newpool
    /\ alast.addr < alast.origin
    /\ Len(TriedBy("After")) >= 1
    /\ TriedBy("After")[1].addr > alast.origin
    /\ Len(TriedBy("Before")) >= 1


\* C26: the payload a CodePatcher writes at the hook site has exactly the
\* true overwrite size, the summed length of the instructions taken; it
\* starts with the caller's patch bytes in order and every further byte is
\* 0x90; patch() writes exactly this sequence at the location.
C26_PatchPayload ==
    /\ cp.live =>
           /\ Len(cp.patch) >= Len(cp.given)
           /\ \A k \in 1 .. Len(cp.patch) :
                  cp.patch[k] = IF k <= Len(cp.given) THEN cp.given[k] ELSE NOP
    /\ (last.op = "new" /\ last.res = "ok") =>
           /\ cp.given = last.patch
           /\ Len(cp.patch) = SumLen(last.taken)
    /\ (last.op = "patch" /\ last.res = "ok") =>
           LET writes == { k \in 1 .. Len(last.log) : last.log[k].ev = "write" }
           IN /\ Cardinality(writes) = 1
              /\ \A k \in writes : /\ last.log[k].why = "apply"
                                    /\ last.log[k].loc = cp.location
                                    /\ last.log[k].len = Len(cp.patch)
              /\ ReadBytes(mem, cp.location, Len(cp.patch)) = cp.patch

\* a one-byte patch over a two-byte instruction was written: the patch byte
\* followed by one 0x90
C26_Witness ==
    /\ last.op = "patch"
    /\ last.res = "ok"
    /\ cp.given = <<204>>
    /\ Len(cp.patch) = 2
    /\ mem[Location] = 204
    /\ mem[Location + 1] = NOP
    /\ last.premem[Location + 1] # NOP


\* C27: when several guards were obtained from a CodePatcher for its location
\* and all of them have been released, in whatever order, the bytes at the
\* location are those found there before the first patch.
C27_OverlappingGuards ==
    (halted = "no" /\ nguards >= 2 /\ LiveGuards = {} /\ nnew = 1) =>
        ReadBytes(mem, Location, Len(snap[1].bytes)) = snap[1].bytes


\* C28: every write to the target bytes made by an operation of a
\* PermissionWrapper or of one of its guards (the apply write and the
\* write-back of the original bytes) is made while all pages covering the
\* bytes are readable, writable and executable, also when the protection
\* change fails while the guard is released.
C28_WritesUnderElevation ==
    (last.kind = "perm") =>
        \A k \in 1 .. Len(last.log) :
            last.log[k].ev = "write" => last.log[k].elevated


\* C29: a thread standing at the lock of the allocator does not hold it, and
\* under a fair scheduler every thread that entered allocate or the drop of an
\* ExecutableMemory gets the lock and comes back from the call.
C29_LockRequestsOutsideLock ==
    \A t \in Threads : threads[t].pc \in {"lock_allocate", "lock_drop"} => mutex.holder # t

C29_NoDeadlock ==
    \A t \in Threads : (threads[t].pc # "idle") ~> (threads[t].pc = "idle")


\* C30: an allocate that returns an error leaves the pool list and the live
\* allocations of every pool as they were, and a pool joins the list only in
\* an allocate that succeeds with a slice of that pool.
C30_FailedAllocateUnchanged ==
    (alast.op = "allocate" /\ alast.res # "panic") =>
        /\ alast.res # "ok" =>
              /\ alast.res \in {"OutOfMemory", "MmapError", "RegionError"}
              /\ pools = alast.prepools
        /\ Len(pools) > Len(alast.prepools) =>
              /\ alast.res = "ok"
              /\ Len(pools) = Len(alast.prepools) + 1
              /\ SubSeq(pools, 1, Len(alast.prepools)) = alast.prepools
              /\ \E al \in pools[Len(pools)].allocs :
                     pools[Len(pools)].base + al.off = alast.addr /\ al.len = alast.size

\* an allocate failed while pools with live allocations were registered
C30_Witness ==
    /\ alast.op = "allocate"
    /\ alast.res \in {"OutOfMemory", "RegionError"}
    /\ alast.tried # << >>
    /\ \E i \in 1 .. Len(alast.prepools) : alast.prepools[i].allocs # {}

====
